---- MODULE Spec2Model ----
(***************************************************************************)
(* Content sealing and verification protocol of the CV-RAG system:         *)
(* SHA-256 chunk hashing, Merkle tree construction and proof checking      *)
(* (merkletreejs with sortPairs / duplicateOdd), the DocumentRegistry      *)
(* contract and its viem client, the ingestion pipeline, the tampering     *)
(* API and the client-side verifier.                                       *)
(*                                                                         *)
(* Byte strings (texts and digests) are sequences of naturals.  A text is  *)
(* a sequence of character codes, all of them >= 9.  SHA-256 is modelled   *)
(* as an injective function: the digest of a text is the text behind the   *)
(* tag 1, the digest of a concatenation of two digests is the two digests  *)
(* behind the tag 0 (prefix notation, uniquely decodable).  The empty      *)
(* sequence is the zero-length buffer.                                     *)
(***************************************************************************)
EXTENDS Integers, Sequences, FiniteSets, TLC

VARIABLES
    mPc,          \* position of the Merkle harness: "off", "input", "built", "verified"
    mLeaves,      \* chunkHashes handed to buildMerkleTree
    mData,        \* MerkleData returned by buildMerkleTree
    mCall,        \* arguments of the last verifyMerkleProof call
    mResult,      \* result of the last verifyMerkleProof call
    blockNumber,  \* height of the chain
    roots,        \* DocumentRegistry.roots, on the roots with a non-zero record
    rootHistory,  \* DocumentRegistry.rootHistory
    eventLog,     \* RootAnchored events, oldest first
    txs,          \* transactions sent to the registry; the hash of one is its index
    documents,    \* rows of the documents table, by id
    chunks,       \* rows of the document_chunks table, by id
    runs,         \* the ingest requests (POST /api/ingest)
    response,     \* response of the last tampering request
    vrun,         \* the verifySource call of the client
    vall,         \* the verifySource calls of one verifyAllSources / handleVerify
    handlers      \* the requests to /api/documents/tamper being handled

mvars == <<mPc, mLeaves, mData, mCall, mResult>>
chain == <<blockNumber, roots, rootHistory, eventLog, txs>>
db    == <<documents, chunks>>
svars == <<blockNumber, roots, rootHistory, eventLog, txs, documents, chunks,
           runs, response, vrun, vall, handlers>>
vars  == <<mPc, mLeaves, mData, mCall, mResult,
           blockNumber, roots, rootHistory, eventLog, txs, documents, chunks,
           runs, response, vrun, vall, handlers>>

-----------------------------------------------------------------------------
(* Bounds *)

MaxShortLeaves == 3     \* leaf sequences up to this length are enumerated in full
MaxLongLeaves == 8      \* longest leaf sequence (distinct leaves)

-----------------------------------------------------------------------------
(* Hashing *)

IsWhitespace(c) == c \in {9, 10, 11, 12, 13, 32}

RECURSIVE TrimStart(_)
TrimStart(text) ==
    IF text # <<>> /\ IsWhitespace(Head(text)) THEN TrimStart(Tail(text)) ELSE text

RECURSIVE TrimEnd(_)
TrimEnd(text) ==
    IF text # <<>> /\ IsWhitespace(text[Len(text)])
    THEN TrimEnd(SubSeq(text, 1, Len(text) - 1))
    ELSE text

\* String.prototype.trim
Trim(text) == TrimEnd(TrimStart(text))

\* crypto.createHash("sha256").update(text.trim(), "utf8").digest("hex")
generateChunkHash(text) == <<1>> \o Trim(text)

\* (data) => crypto.createHash("sha256").update(data).digest()
hashFn(data) == <<0>> \o data

\* Buffer.compare: lexicographic order of the bytes
RECURSIVE BufferCompare(_, _)
BufferCompare(a, b) ==
    IF a = <<>> /\ b = <<>> THEN 0
    ELSE IF a = <<>> THEN -1
    ELSE IF b = <<>> THEN 1
    ELSE IF Head(a) < Head(b) THEN -1
    ELSE IF Head(a) > Head(b) THEN 1
    ELSE BufferCompare(Tail(a), Tail(b))

-----------------------------------------------------------------------------
(* merkletreejs, as configured by buildMerkleTree and verifyMerkleProof *)

\* the pair concatenated in its position order
SortedConcat_Positional(left, right) == left \o right

\* sortPairs: combined.sort(Buffer.compare), then Buffer.concat
SortedConcat(left, right) ==
    IF BufferCompare(left, right) = 1 THEN right \o left ELSE left \o right

\* one round of the layer loop; duplicateOdd pairs an unpaired last node
\* with itself
NextLayer(nodes) ==
    [k \in 1..((Len(nodes) + 1) \div 2) |->
        LET left  == nodes[2 * k - 1]
            right == IF 2 * k <= Len(nodes) THEN nodes[2 * k] ELSE left
        IN  hashFn(SortedConcat(left, right))]

\* new MerkleTree(leaves, hashFn, {sortPairs, duplicateOdd}): the layers,
\* built while the current layer has more than one node
RECURSIVE CreateLayers(_)
CreateLayers(nodes) ==
    IF Len(nodes) <= 1 THEN <<nodes>>
    ELSE <<nodes>> \o CreateLayers(NextLayer(nodes))

\* a root that pairs a single leaf with itself
GetRoot_SelfPaired(layers) ==
    LET top == layers[Len(layers)]
    IN  IF top = <<>> THEN <<>>
        ELSE IF Len(layers) = 1 THEN hashFn(SortedConcat(top[1], top[1]))
        ELSE top[1]

\* tree.getRoot(): first node of the top layer, or the empty buffer
GetRoot(layers) ==
    LET top == layers[Len(layers)]
    IN  IF top = <<>> THEN <<>> ELSE top[1]

\* index of the leaf getProof looks for: the last position holding the
\* value (0-based), -1 when absent
LeafIndex(leaves, leaf) ==
    LET hits == {i \in 1..Len(leaves) : leaves[i] = leaf}
    IN  IF hits = {} THEN -1
        ELSE (CHOOSE i \in hits : \A j \in hits : j <= i) - 1

\* the loop of getProof from layer i upwards: the pair node is pushed only
\* when it lies inside the layer
RECURSIVE ProofFrom(_, _, _)
ProofFrom(layers, i, index) ==
    IF i > Len(layers) THEN <<>>
    ELSE LET layer     == layers[i]
             pairIndex == IF index % 2 = 1 THEN index - 1 ELSE index + 1
             here      == IF pairIndex < Len(layer)
                          THEN <<layer[pairIndex + 1]>> ELSE <<>>
         IN  here \o ProofFrom(layers, i + 1, index \div 2)

\* tree.getProof(leaf).map(p => p.data)
GetProof(layers, leaf) ==
    LET index == LeafIndex(layers[1], leaf)
    IN  IF index <= -1 THEN <<>> ELSE ProofFrom(layers, 1, index)

\* tree.verify(proof, targetNode, root) with sortPairs
RECURSIVE FoldProof(_, _)
FoldProof(hash, proof) ==
    IF proof = <<>> THEN hash
    ELSE FoldProof(hashFn(SortedConcat(hash, Head(proof))), Tail(proof))

TreeVerify(proof, targetNode, root) ==
    BufferCompare(FoldProof(targetNode, proof), root) = 0

-----------------------------------------------------------------------------
(* lib/crypto/merkle *)

\* proofs is a Map keyed by the chunk hash: a later entry for the same hash
\* replaces the earlier one (both hold the same proof)
buildMerkleTree(chunkHashes) ==
    LET layers == CreateLayers(chunkHashes)
    IN  [root   |-> GetRoot(layers),
         proofs |-> [h \in {chunkHashes[i] : i \in 1..Len(chunkHashes)} |->
                        GetProof(layers, h)]]

\* a character pair of a string that is no pair of hex digits
NonHex == 0 - 1

\* Buffer.from(str, "hex"): the bytes of the leading hex digit pairs; the
\* decoding stops at the first pair that is not hex
RECURSIVE FromHex(_)
FromHex(str) ==
    IF str = <<>> THEN <<>>
    ELSE IF Head(str) < 0 THEN <<>>
    ELSE <<Head(str)>> \o FromHex(Tail(str))

verifyMerkleProof(chunkHash, proof, root) ==
    LET leaf         == FromHex(chunkHash)
        proofBuffers == [k \in 1..Len(proof) |-> FromHex(proof[k])]
        rootBuffer   == FromHex(root)
    IN  TreeVerify(proofBuffers, leaf, rootBuffer)

\* merkleData.proofs.get(chunkHash) || []
getProofForChunk(merkleData, chunkHash) ==
    IF chunkHash \in DOMAIN merkleData.proofs
    THEN merkleData.proofs[chunkHash] ELSE <<>>

-----------------------------------------------------------------------------
(* Small values *)

\* an optional field: absent, or present with a value
Absent == <<>>
Some(v) == <<v>>
IsPresent(opt) == opt # <<>>

\* the marker check left out
Truthy_Never(opt) == FALSE

\* JavaScript truthiness of an optional string field: undefined and the
\* empty string are falsy
Truthy(opt) == IsPresent(opt) /\ opt[1] # <<>>

-----------------------------------------------------------------------------
(* DocumentRegistry.sol *)

ZeroRoot == [timestamp |-> 0, documentId |-> "", registeredBy |-> ""]

\* roots[_merkleRoot]: a mapping returns the zero record for an unset key
RootRecord(merkleRoot) ==
    IF merkleRoot \in DOMAIN roots THEN roots[merkleRoot] ELSE ZeroRoot

\* block.timestamp of the block at a height: positive, growing with the height
BlockTimestamp(height) == height

\* a lookup that reports every root as existing
verifyRoot_AlwaysExists(merkleRoot) ==
    LET root == RootRecord(merkleRoot)
    IN  [exists     |-> TRUE,
         timestamp  |-> root.timestamp,
         documentId |-> root.documentId]

\* function verifyRoot(bytes32) external view
verifyRoot(merkleRoot) ==
    LET root == RootRecord(merkleRoot)
    IN  [exists     |-> root.timestamp # 0,
         timestamp  |-> root.timestamp,
         documentId |-> root.documentId]

\* function getRootCount() external view
getRootCount == Len(rootHistory)

\* the contract without its require
anchorRootReverts_Never(merkleRoot) == FALSE

\* require(roots[_merkleRoot].timestamp == 0, "Root already exists")
anchorRootReverts(merkleRoot) == RootRecord(merkleRoot).timestamp # 0

\* an anchorRoot that pushes the root to the history before its check
anchorRoot_PushFirst(tx) ==
    LET t      == txs[tx]
        height == blockNumber + 1
    IN  /\ blockNumber' = height
        /\ rootHistory' = Append(rootHistory, t.merkleRoot)
        /\ IF anchorRootReverts(t.merkleRoot)
           THEN /\ txs' = [txs EXCEPT ![tx].status = "reverted"]
                /\ UNCHANGED <<roots, eventLog>>
           ELSE /\ txs' = [txs EXCEPT ![tx].status = "success"]
                /\ roots' = [r \in DOMAIN roots \cup {t.merkleRoot} |->
                                IF r = t.merkleRoot
                                THEN [timestamp    |-> BlockTimestamp(height),
                                      documentId   |-> t.documentId,
                                      registeredBy |-> t.sender]
                                ELSE roots[r]]
                /\ eventLog' = Append(eventLog,
                                  [merkleRoot      |-> t.merkleRoot,
                                   documentId      |-> t.documentId,
                                   timestamp       |-> BlockTimestamp(height),
                                   registeredBy    |-> t.sender,
                                   blockNumber     |-> height,
                                   transactionHash |-> tx])

\* function anchorRoot(bytes32, string) external, executed by the
\* transaction with hash tx in a new block
anchorRoot(tx) ==
    LET t      == txs[tx]
        height == blockNumber + 1
    IN  /\ blockNumber' = height
        /\ IF anchorRootReverts(t.merkleRoot)
           THEN /\ txs' = [txs EXCEPT ![tx].status = "reverted"]
                /\ UNCHANGED <<roots, rootHistory, eventLog>>
           ELSE /\ txs' = [txs EXCEPT ![tx].status = "success"]
                /\ roots' = [r \in DOMAIN roots \cup {t.merkleRoot} |->
                                IF r = t.merkleRoot
                                THEN [timestamp    |-> BlockTimestamp(height),
                                      documentId   |-> t.documentId,
                                      registeredBy |-> t.sender]
                                ELSE roots[r]]
                /\ rootHistory' = Append(rootHistory, t.merkleRoot)
                /\ eventLog' = Append(eventLog,
                                  [merkleRoot      |-> t.merkleRoot,
                                   documentId      |-> t.documentId,
                                   timestamp       |-> BlockTimestamp(height),
                                   registeredBy    |-> t.sender,
                                   blockNumber     |-> height,
                                   transactionHash |-> tx])

-----------------------------------------------------------------------------
(* The chain *)

LOG_RANGE == 50000

MaxBlock == 100010          \* no block is mined above this height

PendingTxs == {tx \in 1..Len(txs) : txs[tx].status = "pending"}

\* the pending transaction of the admin account with the lowest nonce is
\* included in the next block
MineTx ==
    /\ PendingTxs # {}
    /\ blockNumber < MaxBlock
    /\ anchorRoot(CHOOSE tx \in PendingTxs : \A other \in PendingTxs : tx <= other)
    /\ UNCHANGED <<documents, chunks, runs, response, vrun>>
    /\ UNCHANGED mvars
    /\ UNCHANGED <<vall, handlers>>

\* blocks without registry transactions
MineBlocks ==
    /\ \E k \in {LOG_RANGE, LOG_RANGE + 1} :
          /\ blockNumber + k <= MaxBlock
          /\ blockNumber' = blockNumber + k
    /\ UNCHANGED <<roots, rootHistory, eventLog, txs, documents, chunks,
                   runs, response, vrun>>
    /\ UNCHANGED mvars
    /\ UNCHANGED <<vall, handlers>>

-----------------------------------------------------------------------------
(* lib/blockchain/registry.ts *)

\* publicClient.readContract({functionName: "verifyRoot"})
verifyRootOnChain(merkleRoot) == verifyRoot(merkleRoot)

\* fromBlock of the getLogs call
FromBlock(currentBlock) ==
    IF currentBlock > LOG_RANGE THEN currentBlock - LOG_RANGE ELSE 0

\* publicClient.getLogs({event: RootAnchored, args: {merkleRoot}, fromBlock})
getLogs(merkleRoot, fromBlock) ==
    SelectSeq(eventLog,
              LAMBDA e : e.merkleRoot = merkleRoot /\ e.blockNumber >= fromBlock)

\* rootToBytes32: the 0x prefix does not change the digest
rootToBytes32(root) == root

-----------------------------------------------------------------------------
(* POST /api/ingest, with the anchorMerkleRoot call it awaits *)

MaxRuns == 2        \* ingest requests
MaxChunks == 3      \* chunks of the longest uploaded document

Runs == 1..MaxRuns

\* chunk texts as splitTextIntoChunks returns them: trimmed and not empty
ChunkText(k) == <<96 + k>>

\* the uploaded documents: a one-chunk document and the longest one
Files == {[k \in 1..n |-> ChunkText(k)] : n \in {1, MaxChunks}}

\* the browser hash without the trim
hashTextClient_Untrimmed(text) == <<1>> \o text

\* hashTextClient: TextEncoder bytes of the trimmed text, SHA-256 through Web
\* Crypto, every byte rendered as two lowercase hex digits
hashTextClient(text) == <<1>> \o Trim(text)

generateChunkHashes(chunkTexts) ==
    [k \in 1..Len(chunkTexts) |-> generateChunkHash(chunkTexts[k])]

\* prior: the requests whose anchorMerkleRoot call had returned when the
\* call of this request began
IdleRun == [pc |-> "idle", chunkTexts |-> <<>>, hashes |-> <<>>,
            root |-> <<>>, proofs |-> <<>>, prior |-> {}, currentBlock |-> 0,
            tx |-> 0, blockchainTxId |-> 0, error |-> ""]

\* anchorMerkleRoot has returned a transaction hash to request r
AnchorReturned(r) == runs[r].blockchainTxId # 0

\* crypto.randomUUID(): one fresh id per request
DocumentId(r) == r

\* steps 1 to 5: extract, chunk, hash, build the tree, embed
IngestStart(r) ==
    /\ runs[r].pc = "idle"
    /\ \A q \in Runs : q < r => runs[q].pc # "idle"
    /\ \E chunkTexts \in Files :
          LET hashes == generateChunkHashes(chunkTexts)
              tree   == buildMerkleTree(hashes)
          IN  runs' = [runs EXCEPT ![r] =
                          [@ EXCEPT !.pc = "anchor_lookup",
                                    !.chunkTexts = chunkTexts,
                                    !.hashes = hashes,
                                    !.root = tree.root,
                                    !.proofs = tree.proofs,
                                    !.prior = {q \in Runs : AnchorReturned(q)}]]
    /\ UNCHANGED <<chain, db, response, vrun>>
    /\ UNCHANGED mvars
    /\ UNCHANGED <<vall, handlers>>

\* anchorMerkleRoot: const onChain = await verifyRootOnChain(merkleRoot)
AnchorLookup(r) ==
    /\ runs[r].pc = "anchor_lookup"
    /\ LET onChain == verifyRootOnChain(rootToBytes32(runs[r].root))
       IN  runs' = [runs EXCEPT ![r].pc =
                       IF onChain.exists THEN "anchor_blockNumber" ELSE "anchor_write"]
    /\ UNCHANGED <<chain, db, response, vrun>>
    /\ UNCHANGED mvars
    /\ UNCHANGED <<vall, handlers>>

\* anchorMerkleRoot: const currentBlock = await publicClient.getBlockNumber()
AnchorGetBlockNumber(r) ==
    /\ runs[r].pc = "anchor_blockNumber"
    /\ runs' = [runs EXCEPT ![r] = [@ EXCEPT !.pc = "anchor_getLogs",
                                              !.currentBlock = blockNumber]]
    /\ UNCHANGED <<chain, db, response, vrun>>
    /\ UNCHANGED mvars
    /\ UNCHANGED <<vall, handlers>>

\* anchorMerkleRoot: getLogs, and the return of logs[0].transactionHash
AnchorGetLogs(r) ==
    /\ runs[r].pc = "anchor_getLogs"
    /\ LET logs == getLogs(rootToBytes32(runs[r].root), FromBlock(runs[r].currentBlock))
       IN  runs' = [runs EXCEPT ![r] =
                       IF Len(logs) > 0
                       THEN [@ EXCEPT !.pc = "insert_document",
                                      !.blockchainTxId = logs[1].transactionHash]
                       ELSE [@ EXCEPT !.pc = "anchor_write"]]
    /\ UNCHANGED <<chain, db, response, vrun>>
    /\ UNCHANGED mvars
    /\ UNCHANGED <<vall, handlers>>

\* anchorMerkleRoot: walletClient.writeContract.  The gas estimate runs the
\* call on the current state and throws when it reverts; otherwise the
\* transaction is sent.
AnchorWrite(r) ==
    /\ runs[r].pc = "anchor_write"
    /\ IF anchorRootReverts(rootToBytes32(runs[r].root))
       THEN /\ runs' = [runs EXCEPT ![r] = [@ EXCEPT !.pc = "error",
                                                     !.error = "Root already exists"]]
            /\ UNCHANGED txs
       ELSE /\ txs' = Append(txs, [merkleRoot |-> rootToBytes32(runs[r].root),
                                   documentId |-> DocumentId(r),
                                   sender     |-> "admin",
                                   status     |-> "pending"])
            /\ runs' = [runs EXCEPT ![r] = [@ EXCEPT !.pc = "anchor_wait",
                                                     !.tx = Len(txs) + 1]]
    /\ UNCHANGED <<blockNumber, roots, rootHistory, eventLog, db, response, vrun>>
    /\ UNCHANGED mvars
    /\ UNCHANGED <<vall, handlers>>

\* the hash returned without the wait for the receipt
AnchorWait_NoWait(r) ==
    /\ runs[r].pc = "anchor_wait"
    /\ runs' = [runs EXCEPT ![r] = [@ EXCEPT !.pc = "insert_document",
                                              !.blockchainTxId = runs[r].tx]]
    /\ UNCHANGED <<chain, db, response, vrun>>
    /\ UNCHANGED mvars
    /\ UNCHANGED <<vall, handlers>>

\* anchorMerkleRoot: await waitForTransactionReceipt({hash}); return hash
AnchorWait(r) ==
    /\ runs[r].pc = "anchor_wait"
    /\ txs[runs[r].tx].status # "pending"
    /\ runs' = [runs EXCEPT ![r] = [@ EXCEPT !.pc = "insert_document",
                                              !.blockchainTxId = runs[r].tx]]
    /\ UNCHANGED <<chain, db, response, vrun>>
    /\ UNCHANGED mvars
    /\ UNCHANGED <<vall, handlers>>

\* the document row saved before the anchoring call
InsertDocument_BeforeAnchor(r) ==
    /\ runs[r].pc = "anchor_lookup"
    /\ documents' = [d \in DOMAIN documents \cup {DocumentId(r)} |->
                        IF d = DocumentId(r)
                        THEN [merkleRoot     |-> runs[r].root,
                              blockchainTxId |-> runs[r].blockchainTxId,
                              chunkCount     |-> Len(runs[r].chunkTexts)]
                        ELSE documents[d]]
    /\ runs' = [runs EXCEPT ![r].pc = "insert_chunks"]
    /\ UNCHANGED <<chain, chunks, response, vrun>>
    /\ UNCHANGED mvars
    /\ UNCHANGED <<vall, handlers>>

\* step 7: db.insert(documents)
InsertDocument(r) ==
    /\ runs[r].pc = "insert_document"
    /\ documents' = [d \in DOMAIN documents \cup {DocumentId(r)} |->
                        IF d = DocumentId(r)
                        THEN [merkleRoot     |-> runs[r].root,
                              blockchainTxId |-> runs[r].blockchainTxId,
                              chunkCount     |-> Len(runs[r].chunkTexts)]
                        ELSE documents[d]]
    /\ runs' = [runs EXCEPT ![r].pc = "insert_chunks"]
    /\ UNCHANGED <<chain, chunks, response, vrun>>
    /\ UNCHANGED mvars
    /\ UNCHANGED <<vall, handlers>>

\* the row of chunk k of request r; its id is the pair of the document id
\* and the position
ChunkRow(r, k) ==
    [documentId  |-> DocumentId(r),
     chunkIndex  |-> k - 1,
     content     |-> runs[r].chunkTexts[k],
     sha256Hash  |-> runs[r].hashes[k],
     merkleProof |-> getProofForChunk(runs[r], runs[r].hashes[k]),
     metadata    |-> [position        |-> k - 1,
                      tokens          |-> (Len(runs[r].chunkTexts[k]) + 3) \div 4,
                      originalContent |-> Absent,
                      tamperedAt      |-> Absent]]

\* db.insert(documentChunks).values(chunkInserts)
InsertChunks(r) ==
    /\ runs[r].pc = "insert_chunks"
    /\ LET ids == {<<DocumentId(r), k>> : k \in 1..Len(runs[r].chunkTexts)}
       IN  chunks' = [c \in DOMAIN chunks \cup ids |->
                         IF c \in ids THEN ChunkRow(r, c[2]) ELSE chunks[c]]
    /\ runs' = [runs EXCEPT ![r].pc = "done"]
    /\ UNCHANGED <<chain, documents, response, vrun>>
    /\ UNCHANGED mvars
    /\ UNCHANGED <<vall, handlers>>

\* an awaited call (RPC, embedding, database) throws: the catch block
\* reports the error and closes the stream
IngestFail(r) ==
    /\ runs[r].pc \notin {"idle", "done", "error"}
    /\ runs' = [runs EXCEPT ![r] = [@ EXCEPT !.pc = "error", !.error = "thrown"]]
    /\ UNCHANGED <<chain, db, response, vrun>>
    /\ UNCHANGED mvars
    /\ UNCHANGED <<vall, handlers>>

-----------------------------------------------------------------------------
(* POST /api/tamper *)

\* "\n\n[", the label, "]"
TAMPER_MARKER == <<10, 10, 91, 84, 93>>

NoResponse == [status |-> 0, error |-> "", action |-> "", chunkId |-> <<>>]

UnknownChunkId == <<0, 0>>

\* new Date().toISOString()
Now == "now"

\* action === "tamper"
IsTamperAction(action) == action = "tamper"

\* a plain else in place of the test of the action
IsRestoreAction_Else(action) == action # "tamper"

\* action === "restore"
IsRestoreAction(action) == action = "restore"

\* the tamper branch re-sealing the changed content
TamperUpdate_Rehash(chunk) ==
    [chunk EXCEPT !.content = chunk.content \o TAMPER_MARKER,
                  !.sha256Hash = generateChunkHash(chunk.content \o TAMPER_MARKER),
                  !.metadata = [chunk.metadata EXCEPT
                                   !.originalContent = Some(chunk.content),
                                   !.tamperedAt = Some(Now)]]

\* the update of the tamper branch: the marker is appended and the
\* original content saved in the metadata
TamperUpdate(chunk) ==
    [chunk EXCEPT !.content = chunk.content \o TAMPER_MARKER,
                  !.metadata = [chunk.metadata EXCEPT
                                   !.originalContent = Some(chunk.content),
                                   !.tamperedAt = Some(Now)]]

\* the restore branch leaving tamperedAt in the metadata
RestoreUpdate_KeepsTamperedAt(chunk) ==
    [chunk EXCEPT !.content = chunk.metadata.originalContent[1],
                  !.metadata = [chunk.metadata EXCEPT !.originalContent = Absent]]

\* the update of the restore branch: the saved content is put back and
\* both tamper fields are removed from the metadata
RestoreUpdate(chunk) ==
    [chunk EXCEPT !.content = chunk.metadata.originalContent[1],
                  !.metadata = [chunk.metadata EXCEPT
                                   !.originalContent = Absent,
                                   !.tamperedAt = Absent]]

\* the browser awaits one call at a time: a tampering request or a
\* verification
ClientIdle == response = NoResponse /\ vrun.pc = "idle" /\ vall.pc = "idle"

\* the whole handler: select the chunk, check the marker, update the row
TamperRequest ==
    \E chunkId \in DOMAIN chunks \cup {UnknownChunkId, <<>>},
       action \in {"tamper", "restore", "other"} :
       /\ ClientIdle
       /\ IF chunkId = <<>>
          THEN /\ response' = [status |-> 400, error |-> "Chunk ID is required",
                               action |-> action, chunkId |-> chunkId]
               /\ UNCHANGED chunks
          ELSE IF chunkId \notin DOMAIN chunks
          THEN /\ response' = [status |-> 404, error |-> "Chunk not found",
                               action |-> action, chunkId |-> chunkId]
               /\ UNCHANGED chunks
          ELSE LET chunk    == chunks[chunkId]
                   metadata == chunk.metadata
               IN  IF IsTamperAction(action)
                   THEN IF Truthy(metadata.originalContent)
                        THEN /\ response' = [status |-> 400,
                                             error |-> "Chunk already tampered",
                                             action |-> action, chunkId |-> chunkId]
                             /\ UNCHANGED chunks
                        ELSE /\ chunks' = [chunks EXCEPT ![chunkId] = TamperUpdate(chunk)]
                             /\ response' = [status |-> 200, error |-> "",
                                             action |-> action, chunkId |-> chunkId]
                   ELSE IF IsRestoreAction(action)
                   THEN IF ~Truthy(metadata.originalContent)
                        THEN /\ response' = [status |-> 400,
                                             error |-> "Chunk is not tampered",
                                             action |-> action, chunkId |-> chunkId]
                             /\ UNCHANGED chunks
                        ELSE /\ chunks' = [chunks EXCEPT ![chunkId] = RestoreUpdate(chunk)]
                             /\ response' = [status |-> 200, error |-> "",
                                             action |-> action, chunkId |-> chunkId]
                   ELSE /\ response' = [status |-> 400, error |-> "Invalid action",
                                        action |-> action, chunkId |-> chunkId]
                        /\ UNCHANGED chunks
       /\ UNCHANGED <<chain, documents, runs, vrun>>
       /\ UNCHANGED mvars
       /\ UNCHANGED <<vall, handlers>>

\* tamperOrRestoreChunk: the fetch resolves and the response is consumed
TamperReturn ==
    /\ response # NoResponse
    /\ response' = NoResponse
    /\ UNCHANGED <<chain, db, runs, vrun>>
    /\ UNCHANGED mvars
    /\ UNCHANGED <<vall, handlers>>

-----------------------------------------------------------------------------
(* /api/documents/tamper: requests handled concurrently *)

\* requests the server handles at a time
MaxHandlers == 2

\* chunks that are tampered, or addressed by a request, at a time
MaxTampered == 1

Handlers == 1..MaxHandlers

IdleHandler == [pc |-> "idle", action |-> "", chunkId |-> <<>>, chunk |-> <<>>,
                status |-> 0, error |-> "", listing |-> <<>>]

\* the chunks the requests being handled address
Addressed == {handlers[h].chunkId : h \in {g \in Handlers : handlers[g].pc = "selected"}}

\* POST: the body is read and the row of the chunk selected
HandlerSelect(h) ==
    /\ handlers[h].pc = "idle"
    /\ \E chunkId \in DOMAIN chunks, action \in {"tamper", "restore"} :
          /\ Cardinality({c \in DOMAIN chunks : IsPresent(chunks[c].metadata.originalContent)}
                            \cup Addressed \cup {chunkId}) <= MaxTampered
          /\ handlers' = [handlers EXCEPT ![h] =
                             [IdleHandler EXCEPT !.pc = "selected",
                                                 !.action = action,
                                                 !.chunkId = chunkId,
                                                 !.chunk = chunks[chunkId]]]
    /\ UNCHANGED <<chain, db, runs, response, vrun, vall>>
    /\ UNCHANGED mvars

\* the update made whatever the marker of the selected row says
HandlerUpdate_Unchecked(h) ==
    /\ handlers[h].pc = "selected"
    /\ LET chunk   == handlers[h].chunk
           chunkId == handlers[h].chunkId
           row     == IF IsTamperAction(handlers[h].action) THEN TamperUpdate(chunk)
                      ELSE IF IsPresent(chunk.metadata.originalContent)
                           THEN RestoreUpdate(chunk) ELSE chunk
       IN  /\ chunks' = [chunks EXCEPT ![chunkId] =
                            [@ EXCEPT !.content = row.content, !.metadata = row.metadata]]
           /\ handlers' = [handlers EXCEPT ![h] =
                              [@ EXCEPT !.pc = "responded", !.status = 200]]
    /\ UNCHANGED <<chain, documents, runs, response, vrun, vall>>
    /\ UNCHANGED mvars

\* POST: the marker of the selected row is checked and the row updated from
\* the selected values
HandlerUpdate(h) ==
    /\ handlers[h].pc = "selected"
    /\ LET chunk    == handlers[h].chunk
           metadata == chunk.metadata
           chunkId  == handlers[h].chunkId
           rejected == IF IsTamperAction(handlers[h].action)
                       THEN Truthy(metadata.originalContent)
                       ELSE ~Truthy(metadata.originalContent)
           row      == IF IsTamperAction(handlers[h].action)
                       THEN TamperUpdate(chunk) ELSE RestoreUpdate(chunk)
       IN  IF rejected
           THEN /\ handlers' = [handlers EXCEPT ![h] =
                                   [@ EXCEPT !.pc = "responded", !.status = 400,
                                             !.error = IF IsTamperAction(handlers[h].action)
                                                       THEN "Chunk already tampered"
                                                       ELSE "Chunk is not tampered"]]
                /\ UNCHANGED chunks
           ELSE /\ chunks' = [chunks EXCEPT ![chunkId] =
                                 [@ EXCEPT !.content = row.content,
                                           !.metadata = row.metadata]]
                /\ handlers' = [handlers EXCEPT ![h] =
                                   [@ EXCEPT !.pc = "responded", !.status = 200]]
    /\ UNCHANGED <<chain, documents, runs, response, vrun, vall>>
    /\ UNCHANGED mvars

\* chunk.content.slice(0, 200)
ContentPreview(content) ==
    SubSeq(content, 1, IF Len(content) < 200 THEN Len(content) ELSE 200)

\* GET: the chunks of a document with their tamper status
HandlerList(h) ==
    /\ handlers[h].pc = "idle"
    /\ \E documentId \in DOMAIN documents :
          LET rows == {c \in DOMAIN chunks : chunks[c].documentId = documentId}
          IN  handlers' = [handlers EXCEPT ![h] =
                 [IdleHandler EXCEPT
                     !.pc = "responded", !.action = "list", !.status = 200,
                     !.listing =
                         [c \in rows |->
                             [contentPreview |-> ContentPreview(chunks[c].content),
                              isTampered     |-> Truthy(chunks[c].metadata.originalContent),
                              tamperedAt     |-> chunks[c].metadata.tamperedAt]]]]
    /\ UNCHANGED <<chain, db, runs, response, vrun, vall>>
    /\ UNCHANGED mvars

\* the response is sent
HandlerReturn(h) ==
    /\ handlers[h].pc = "responded"
    /\ handlers' = [handlers EXCEPT ![h] = IdleHandler]
    /\ UNCHANGED <<chain, db, runs, response, vrun, vall>>
    /\ UNCHANGED mvars

-----------------------------------------------------------------------------
(* lib/verification: verifySource *)

\* a digest of the first character only
hashText_FirstCharacter(text) ==
    <<1>> \o (IF Trim(text) = <<>> THEN <<>> ELSE <<Head(Trim(text))>>)

\* TextEncoder, crypto.subtle.digest("SHA-256"), lowercase hex
hashText(text) == <<1>> \o Trim(text)

\* Number(bigint): exact below 2^53, which every block timestamp is
NumberOf(bigint) == bigint

IdleVerify == [pc |-> "idle", source |-> <<>>, proofChecked |-> FALSE,
               lookups |-> 0, onChain |-> Absent,
               verified |-> FALSE, error |-> "",
               timestamp |-> Absent, documentId |-> Absent]

\* the source retrieveRelevantChunks returns for a chunk: the chunk row
\* joined with its document
RetrievedChunk(chunkId) ==
    [chunkId        |-> chunkId,
     content        |-> chunks[chunkId].content,
     chunkHash      |-> chunks[chunkId].sha256Hash,
     merkleProof    |-> chunks[chunkId].merkleProof,
     merkleRoot     |-> documents[chunks[chunkId].documentId].merkleRoot,
     blockchainTxId |-> documents[chunks[chunkId].documentId].blockchainTxId,
     forged         |-> FALSE]

\* a source whose proof and root are made up by the server: the empty proof
\* under the chunk hash as root
SelfRooted(source) ==
    [source EXCEPT !.merkleProof = <<>>, !.merkleRoot = source.chunkHash,
                   !.forged = TRUE]

\* a source whose content arrives with white space around it: a space
\* before and a line feed after
Padded(source) ==
    [source EXCEPT !.content = <<32>> \o source.content \o <<10>>,
                   !.forged = TRUE]

\* verifySource(source) is called
VerifyStart ==
    /\ ClientIdle
    /\ \E chunkId \in DOMAIN chunks :
          \E source \in {RetrievedChunk(chunkId), SelfRooted(RetrievedChunk(chunkId)),
                         Padded(RetrievedChunk(chunkId))} :
             vrun' = [IdleVerify EXCEPT !.pc = "hashing", !.source = source]
    /\ UNCHANGED <<chain, db, runs, response>>
    /\ UNCHANGED mvars
    /\ UNCHANGED <<vall, handlers>>

\* step 1 without its early return
VerifyHash_NoReturn ==
    /\ vrun.pc = "hashing"
    /\ vrun' = [vrun EXCEPT !.pc = "proof"]
    /\ UNCHANGED <<chain, db, runs, response>>
    /\ UNCHANGED mvars
    /\ UNCHANGED <<vall, handlers>>

\* step 1: re-hash the chunk content
VerifyHash ==
    /\ vrun.pc = "hashing"
    /\ vrun' = IF hashText(vrun.source.content) # vrun.source.chunkHash
               THEN [vrun EXCEPT !.pc = "done", !.verified = FALSE,
                                 !.error = "Chunk hash mismatch"]
               ELSE [vrun EXCEPT !.pc = "proof"]
    /\ UNCHANGED <<chain, db, runs, response>>
    /\ UNCHANGED mvars
    /\ UNCHANGED <<vall, handlers>>

\* step 2 with the result of the proof check ignored
VerifyProof_Ignored ==
    /\ vrun.pc = "proof"
    /\ vrun' = [vrun EXCEPT !.pc = "anchor", !.proofChecked = TRUE]
    /\ UNCHANGED <<chain, db, runs, response>>
    /\ UNCHANGED mvars
    /\ UNCHANGED <<vall, handlers>>

\* step 2: verify the Merkle proof
VerifyProof ==
    /\ vrun.pc = "proof"
    /\ vrun' = IF ~verifyMerkleProof(vrun.source.chunkHash, vrun.source.merkleProof,
                                     vrun.source.merkleRoot)
               THEN [vrun EXCEPT !.pc = "done", !.proofChecked = TRUE,
                                 !.verified = FALSE,
                                 !.error = "Invalid Merkle proof"]
               ELSE [vrun EXCEPT !.pc = "anchor", !.proofChecked = TRUE]
    /\ UNCHANGED <<chain, db, runs, response>>
    /\ UNCHANGED mvars
    /\ UNCHANGED <<vall, handlers>>

\* step 3: verify the root on the blockchain
VerifyAnchor ==
    /\ vrun.pc = "anchor"
    /\ LET onChainData == verifyRootOnChain(vrun.source.merkleRoot)
       IN  vrun' = IF ~onChainData.exists
                   THEN [vrun EXCEPT !.pc = "done", !.lookups = @ + 1,
                                     !.onChain = Some(onChainData),
                                     !.verified = FALSE,
                                     !.error = "Merkle root not found on blockchain"]
                   ELSE [vrun EXCEPT !.pc = "done", !.lookups = @ + 1,
                                     !.onChain = Some(onChainData),
                                     !.verified = TRUE,
                                     !.timestamp = Some(NumberOf(onChainData.timestamp)),
                                     !.documentId = Some(onChainData.documentId)]
    /\ UNCHANGED <<chain, db, runs, response>>
    /\ UNCHANGED mvars
    /\ UNCHANGED <<vall, handlers>>

\* the readContract call of step 3 throws (RPC error): the catch block
\* turns the exception into a verdict
VerifyAnchorThrows ==
    /\ vrun.pc = "anchor"
    /\ vrun' = [vrun EXCEPT !.pc = "done", !.lookups = @ + 1,
                            !.verified = FALSE, !.error = "thrown"]
    /\ UNCHANGED <<chain, db, runs, response>>
    /\ UNCHANGED mvars
    /\ UNCHANGED <<vall, handlers>>

\* the exception of step 1 or 2 leaving the function
VerifyLocalThrows_Rejects ==
    /\ vrun.pc \in {"hashing", "proof"}
    /\ vrun' = [vrun EXCEPT !.pc = "rejected", !.error = "thrown"]
    /\ UNCHANGED <<chain, db, runs, response>>
    /\ UNCHANGED mvars
    /\ UNCHANGED <<vall, handlers>>

\* step 1 or step 2 throws (no crypto.subtle in the page, a source field of
\* the wrong type): the catch block turns the exception into a verdict
VerifyLocalThrows ==
    /\ vrun.pc \in {"hashing", "proof"}
    /\ vrun' = [vrun EXCEPT !.pc = "done", !.verified = FALSE, !.error = "thrown"]
    /\ UNCHANGED <<chain, db, runs, response>>
    /\ UNCHANGED mvars
    /\ UNCHANGED <<vall, handlers>>

\* handleVerify: the promise resolves and the verdict is consumed
VerifyReturn ==
    /\ vrun.pc = "done"
    /\ vrun' = IdleVerify
    /\ UNCHANGED <<chain, db, runs, response>>
    /\ UNCHANGED mvars
    /\ UNCHANGED <<vall, handlers>>

-----------------------------------------------------------------------------
(* lib/verification: verifyAllSources, and handleVerify of the panel *)

IdleAll == [pc |-> "idle", calls |-> <<>>]

\* the sources of an answer: the chunks of one stored document, as retrieved
SourcesOf(d) ==
    [k \in 1..documents[d].chunkCount |-> RetrievedChunk(<<d, k>>)]

\* steps 1 and 2 of a call, which end in a verdict or in the request of step 3
CallChecked(call) ==
    IF hashText(call.source.content) # call.source.chunkHash
    THEN [call EXCEPT !.pc = "done", !.verified = FALSE,
                      !.error = "Chunk hash mismatch"]
    ELSE IF ~verifyMerkleProof(call.source.chunkHash, call.source.merkleProof,
                               call.source.merkleRoot)
    THEN [call EXCEPT !.pc = "done", !.proofChecked = TRUE, !.verified = FALSE,
                      !.error = "Invalid Merkle proof"]
    ELSE [call EXCEPT !.pc = "anchor", !.proofChecked = TRUE, !.lookups = @ + 1]

\* step 3 of a call once the lookup has answered
CallAnswered(call) ==
    LET onChainData == verifyRootOnChain(call.source.merkleRoot)
    IN  IF ~onChainData.exists
        THEN [call EXCEPT !.pc = "done", !.onChain = Some(onChainData),
                          !.verified = FALSE,
                          !.error = "Merkle root not found on blockchain"]
        ELSE [call EXCEPT !.pc = "done", !.onChain = Some(onChainData),
                          !.verified = TRUE,
                          !.timestamp = Some(NumberOf(onChainData.timestamp)),
                          !.documentId = Some(onChainData.documentId)]

\* the catch block of a call
CallThrown(call) ==
    [call EXCEPT !.pc = "done", !.verified = FALSE, !.error = "thrown"]

\* sources.map(verifySource): every call is started
VerifyAllStart ==
    /\ ClientIdle
    /\ \E d \in DOMAIN documents :
          /\ \A k \in 1..documents[d].chunkCount : <<d, k>> \in DOMAIN chunks
          /\ vall' = [pc    |-> "running",
                      calls |-> [k \in 1..documents[d].chunkCount |->
                                   [IdleVerify EXCEPT !.pc = "hashing",
                                                      !.source = SourcesOf(d)[k]]]]
    /\ UNCHANGED <<chain, db, runs, response, vrun, handlers>>
    /\ UNCHANGED mvars

\* call i: the digest of the content is there; steps 1 and 2
VerifyAllCheck(i) ==
    /\ vall.pc = "running"
    /\ i \in DOMAIN vall.calls
    /\ vall.calls[i].pc = "hashing"
    /\ vall' = [vall EXCEPT !.calls[i] = CallChecked(@)]
    /\ UNCHANGED <<chain, db, runs, response, vrun, handlers>>
    /\ UNCHANGED mvars

\* call i: the lookup answers
VerifyAllAnswer(i) ==
    /\ vall.pc = "running"
    /\ i \in DOMAIN vall.calls
    /\ vall.calls[i].pc = "anchor"
    /\ vall' = [vall EXCEPT !.calls[i] = CallAnswered(@)]
    /\ UNCHANGED <<chain, db, runs, response, vrun, handlers>>
    /\ UNCHANGED mvars

\* call i: the lookup stays without an answer for ever
VerifyAllThrows_Pending(i) ==
    /\ vall.pc = "running"
    /\ i \in DOMAIN vall.calls
    /\ vall.calls[i].pc = "anchor"
    /\ vall' = [vall EXCEPT !.calls[i].pc = "pending"]
    /\ UNCHANGED <<chain, db, runs, response, vrun, handlers>>
    /\ UNCHANGED mvars

\* call i: the lookup does not answer; the request of the http transport
\* of publicClient ends with an error, which the catch block turns into a
\* verdict
VerifyAllThrows(i) ==
    /\ vall.pc = "running"
    /\ i \in DOMAIN vall.calls
    /\ vall.calls[i].pc = "anchor"
    /\ vall' = [vall EXCEPT !.calls[i] = CallThrown(@)]
    /\ UNCHANGED <<chain, db, runs, response, vrun, handlers>>
    /\ UNCHANGED mvars

\* Promise.all resolves when every call has resolved
VerifyAllResolve ==
    /\ vall.pc = "running"
    /\ \A i \in DOMAIN vall.calls : vall.calls[i].pc = "done"
    /\ vall' = [vall EXCEPT !.pc = "resolved"]
    /\ UNCHANGED <<chain, db, runs, response, vrun, handlers>>
    /\ UNCHANGED mvars

\* the results are handed over (setVerificationResults)
VerifyAllReturn ==
    /\ vall.pc = "resolved"
    /\ vall' = IdleAll
    /\ UNCHANGED <<chain, db, runs, response, vrun, handlers>>
    /\ UNCHANGED mvars

-----------------------------------------------------------------------------
(* The system *)

SInit ==
    /\ blockNumber = 1
    /\ roots = <<>>
    /\ rootHistory = <<>>
    /\ eventLog = <<>>
    /\ txs = <<>>
    /\ documents = <<>>
    /\ chunks = <<>>
    /\ runs = [r \in Runs |-> IdleRun]
    /\ response = NoResponse
    /\ vrun = IdleVerify
    /\ vall = IdleAll
    /\ handlers = [h \in Handlers |-> IdleHandler]

Ingest ==
    \E r \in Runs :
       \/ IngestStart(r)
       \/ AnchorLookup(r)
       \/ AnchorGetBlockNumber(r)
       \/ AnchorGetLogs(r)
       \/ AnchorWrite(r)
       \/ AnchorWait(r)
       \/ InsertDocument(r)
       \/ InsertChunks(r)
       \/ IngestFail(r)

Verify ==
    \/ VerifyStart
    \/ VerifyHash
    \/ VerifyProof
    \/ VerifyAnchor
    \/ VerifyAnchorThrows
    \/ VerifyLocalThrows
    \/ VerifyReturn

Init ==
    /\ SInit
    /\ mPc = "off"
    /\ mLeaves = <<>>
    /\ mData = [root |-> <<>>, proofs |-> <<>>]
    /\ mCall = [leaf |-> <<>>, proof |-> <<>>, root |-> <<>>, index |-> 0, changed |-> "none"]
    /\ mResult = FALSE

\* the ingestion pipeline and the chain; requests run concurrently
Next == Ingest \/ MineTx \/ MineBlocks

Spec == Init /\ [][Next]_vars

\* the stored chunks, the tampering API and the verifier; one ingest
\* request at a time
OneRunAtATime ==
    Cardinality({r \in Runs : runs'[r].pc \notin {"idle", "done", "error"}}) <= 1

NextStore ==
    \/ (Ingest /\ OneRunAtATime)
    \/ MineTx
    \/ TamperRequest
    \/ TamperReturn
    \/ Verify

SpecStore == Init /\ [][NextStore]_vars

VerifyAll ==
    \/ VerifyAllStart
    \/ \E i \in 1..MaxChunks : VerifyAllCheck(i)
    \/ \E i \in 1..MaxChunks : VerifyAllAnswer(i)
    \/ \E i \in 1..MaxChunks : VerifyAllThrows(i)
    \/ VerifyAllResolve
    \/ VerifyAllReturn

\* the steps of the ingest requests in which no awaited call throws
IngestSteps ==
    \E r \in Runs :
       \/ IngestStart(r)
       \/ AnchorLookup(r)
       \/ AnchorGetBlockNumber(r)
       \/ AnchorGetLogs(r)
       \/ AnchorWrite(r)
       \/ AnchorWait(r)
       \/ InsertDocument(r)
       \/ InsertChunks(r)

\* the stored chunks and the verification panel; a batch is verified
\* while no ingest request makes a step
NextPanel ==
    \/ (IngestSteps /\ OneRunAtATime /\ vall.pc = "idle")
    \/ MineTx
    \/ VerifyAll

SpecPanel == Init /\ [][NextPanel]_vars

\* the stored chunks and the tampering API under concurrent requests
Tampering ==
    \E h \in Handlers :
       \/ HandlerSelect(h)
       \/ HandlerUpdate(h)
       \/ HandlerList(h)
       \/ HandlerReturn(h)

NextTamper ==
    \/ (IngestSteps /\ OneRunAtATime /\ \A h \in Handlers : handlers[h].pc = "idle")
    \/ MineTx
    \/ Tampering

SpecTamper == Init /\ [][NextTamper]_vars

\* the event loop runs every continuation that is ready
SpecPanelFair == SpecPanel /\ WF_vars(VerifyAll)

-----------------------------------------------------------------------------
(* Merkle harness: build a tree over a leaf sequence, then verify a leaf   *)
(* with its stored proof, optionally with one argument replaced            *)

LeafAlphabet == {generateChunkHash(<<c>>) : c \in 97..(96 + MaxLongLeaves)}

LeafOf(k) == generateChunkHash(<<96 + k>>)

ShortLeafSeqs ==
    UNION {[1..n -> {LeafOf(k) : k \in 1..MaxShortLeaves}] : n \in 1..MaxShortLeaves}

\* distinct leaves, ascending, descending and rotated
LongLeafSeqs ==
    UNION {{[i \in 1..n |-> LeafOf(i)],
            [i \in 1..n |-> LeafOf(n + 1 - i)],
            [i \in 1..n |-> LeafOf(((i + 1) % n) + 1)]} : n \in 1..MaxLongLeaves}

\* the empty sequence is what a document without chunks hands over
LeafSeqs == ShortLeafSeqs \cup LongLeafSeqs \cup {<<>>}

\* every digest of the tree over the leaves, and the leaf alphabet
RECURSIVE NodesOf(_)
NodesOf(layers) ==
    IF layers = <<>> THEN {}
    ELSE {Head(layers)[i] : i \in 1..Len(Head(layers))} \cup NodesOf(Tail(layers))

DigestsAround(leaves) == NodesOf(CreateLayers(leaves)) \cup LeafAlphabet

NoCall == [leaf |-> <<>>, proof |-> <<>>, root |-> <<>>, index |-> 0, changed |-> "none"]

MInit ==
    /\ SInit
    /\ mPc = "input"
    /\ mLeaves \in LeafSeqs
    /\ mData = [root |-> <<>>, proofs |-> <<>>]
    /\ mCall = NoCall
    /\ mResult = FALSE

MBuild ==
    /\ mPc = "input"
    /\ mData' = buildMerkleTree(mLeaves)
    /\ mPc' = "built"
    /\ UNCHANGED <<mLeaves, mCall, mResult>>
    /\ UNCHANGED svars

\* verifyMerkleProof(L[i], proofs.get(L[i]), root)
MVerify ==
    /\ mPc = "built"
    /\ \E i \in 1..Len(mLeaves) :
          LET proof == getProofForChunk(mData, mLeaves[i])
          IN  /\ mCall' = [leaf |-> mLeaves[i], proof |-> proof, root |-> mData.root,
                           index |-> i, changed |-> "none"]
              /\ mResult' = verifyMerkleProof(mLeaves[i], proof, mData.root)
    /\ mPc' = "verified"
    /\ UNCHANGED <<mLeaves, mData>>
    /\ UNCHANGED svars

\* the same call with the leaf, one sibling or the root replaced by a
\* different digest
MVerifyChanged ==
    /\ mPc = "built"
    /\ \E i \in 1..Len(mLeaves), d \in DigestsAround(mLeaves) :
          LET proof == getProofForChunk(mData, mLeaves[i])
          IN  \/ /\ d # mLeaves[i]
                 /\ mCall' = [leaf |-> d, proof |-> proof, root |-> mData.root,
                              index |-> i, changed |-> "leaf"]
                 /\ mResult' = verifyMerkleProof(d, proof, mData.root)
              \/ /\ d # mData.root
                 /\ mCall' = [leaf |-> mLeaves[i], proof |-> proof, root |-> d,
                              index |-> i, changed |-> "root"]
                 /\ mResult' = verifyMerkleProof(mLeaves[i], proof, d)
              \/ \E k \in 1..Len(proof) :
                    /\ d # proof[k]
                    /\ mCall' = [leaf |-> mLeaves[i],
                                 proof |-> [proof EXCEPT ![k] = d],
                                 root |-> mData.root,
                                 index |-> i, changed |-> "sibling"]
                    /\ mResult' = verifyMerkleProof(mLeaves[i],
                                                    [proof EXCEPT ![k] = d], mData.root)
    /\ mPc' = "verified"
    /\ UNCHANGED <<mLeaves, mData>>
    /\ UNCHANGED svars

\* the same call with an argument that is no digest: the empty string, a
\* digest cut after its first byte, a digest followed by characters that
\* are not hex
MVerifyMalformed ==
    /\ mPc = "built"
    /\ \/ /\ mCall' = [leaf |-> <<>>, proof |-> <<>>, root |-> <<>>,
                        index |-> 0, changed |-> "empty"]
          /\ mResult' = verifyMerkleProof(<<>>, <<>>, <<>>)
       \/ \E i \in 1..Len(mLeaves) :
             LET proof == getProofForChunk(mData, mLeaves[i])
                 cut   == <<mLeaves[i][1]>>
                 tail  == mLeaves[i] \o <<NonHex, NonHex>>
             IN  \/ /\ mCall' = [leaf |-> cut, proof |-> proof, root |-> mData.root,
                                  index |-> i, changed |-> "truncated leaf"]
                    /\ mResult' = verifyMerkleProof(cut, proof, mData.root)
                 \/ /\ mCall' = [leaf |-> tail, proof |-> proof, root |-> mData.root,
                                  index |-> i, changed |-> "leaf with non-hex tail"]
                    /\ mResult' = verifyMerkleProof(tail, proof, mData.root)
                 \/ /\ mCall' = [leaf |-> mLeaves[i], proof |-> proof,
                                  root |-> mData.root \o <<NonHex>>,
                                  index |-> i, changed |-> "root with non-hex tail"]
                    /\ mResult' = verifyMerkleProof(mLeaves[i], proof,
                                                    mData.root \o <<NonHex>>)
                 \/ \E k \in 1..Len(proof) :
                       /\ mCall' = [leaf |-> mLeaves[i],
                                    proof |-> [proof EXCEPT ![k] = <<>>],
                                    root |-> mData.root,
                                    index |-> i, changed |-> "empty sibling"]
                       /\ mResult' = verifyMerkleProof(mLeaves[i],
                                                       [proof EXCEPT ![k] = <<>>],
                                                       mData.root)
    /\ mPc' = "malformed"
    /\ UNCHANGED <<mLeaves, mData>>
    /\ UNCHANGED svars

\* the sequence with the leaves at positions i and j exchanged
SwapLeaves(leaves, i, j) ==
    [k \in 1..Len(leaves) |->
        IF k = i THEN leaves[j] ELSE IF k = j THEN leaves[i] ELSE leaves[k]]

\* buildMerkleTree over the sequence with two different leaves exchanged;
\* the result records whether the root changed
MSwap ==
    /\ mPc = "built"
    /\ \E i, j \in 1..Len(mLeaves) :
          /\ i < j
          /\ mLeaves[i] # mLeaves[j]
          /\ LET swapped == buildMerkleTree(SwapLeaves(mLeaves, i, j))
             IN  /\ mCall' = [leaf |-> mLeaves[i], proof |-> <<>>, root |-> swapped.root,
                              index |-> i, changed |-> "swap", other |-> j]
                 /\ mResult' = (swapped.root # mData.root)
    /\ mPc' = "swapped"
    /\ UNCHANGED <<mLeaves, mData>>
    /\ UNCHANGED svars

MNext == MBuild \/ MVerify \/ MVerifyChanged \/ MVerifyMalformed \/ MSwap

SpecMerkle == MInit /\ [][MNext]_vars

-----------------------------------------------------------------------------
(* Properties *)

Distinct(seq) == \A i, j \in 1..Len(seq) : i # j => seq[i] # seq[j]

TamperedChunks == {c \in DOMAIN chunks : IsPresent(chunks[c].metadata.originalContent)}

\* a step of the tampering handler: a response appears
HandlerStep == response = NoResponse /\ response' # NoResponse

\* the digest of the source's content, as the server seals it, is the stored one
SealedHashMatches(source) == generateChunkHash(source.content) = source.chunkHash

\* folding the stored digest with the stored proof gives the stored root
ProofLeadsToRoot(source) ==
    FoldProof(source.chunkHash, source.merkleProof) = source.merkleRoot

\* the lookup of the verifySource call answered, with exists = true
LookupReportedExists == IsPresent(vrun.onChain) /\ vrun.onChain[1].exists

\* C1: for every non-empty leaf sequence L and every index i,
\* verifyMerkleProof(L[i], the proof buildMerkleTree stored for L[i], the
\* root) returns true, the last leaf of an odd level included.
C1_ProofSoundness ==
    (mPc = "verified" /\ mCall.changed = "none") => mResult = TRUE

\* C2: over 1, 2, 3, 5 or 8 distinct leaves, a call with the leaf digest,
\* one sibling of the proof or the root replaced by a different digest
\* returns false.
C2_ChangedInputRejected ==
    (/\ mPc = "verified"
     /\ mCall.changed # "none"
     /\ Distinct(mLeaves)
     /\ Len(mLeaves) \in {1, 2, 3, 5, 8})
        => mResult = FALSE

\* C3: verifySource returns verified = true exactly when the content hashes
\* to the stored chunkHash, the stored proof leads from the chunkHash to the
\* stored root, and the lookup of the root reported exists = true; a verified
\* verdict carries the timestamp and documentId of that lookup, which are
\* those of the root's record.
C3_VerifiedIff ==
    vrun.pc = "done" =>
        /\ vrun.verified <=> (/\ SealedHashMatches(vrun.source)
                              /\ ProofLeadsToRoot(vrun.source)
                              /\ LookupReportedExists)
        /\ vrun.verified =>
              /\ vrun.timestamp = Some(vrun.onChain[1].timestamp)
              /\ vrun.documentId = Some(vrun.onChain[1].documentId)
              /\ vrun.timestamp = Some(RootRecord(vrun.source.merkleRoot).timestamp)
              /\ vrun.documentId = Some(RootRecord(vrun.source.merkleRoot).documentId)
        /\ ~vrun.verified => (vrun.timestamp = Absent /\ vrun.documentId = Absent)

C3_Witness ==
    /\ vrun.pc = "done"
    /\ vrun.verified
    /\ vrun.source.merkleProof # <<>>
    /\ ~vrun.source.forged

\* C4: the lookup of verifySource is made only after the recomputed hash
\* equalled the stored digest and the proof verified; a hash mismatch ends
\* the call with neither the proof check nor a lookup made, a proof failure
\* with no lookup made.
C4_LookupAfterLocalChecks ==
    /\ (vrun.pc = "anchor" \/ vrun.lookups > 0) =>
          /\ SealedHashMatches(vrun.source)
          /\ vrun.proofChecked
          /\ ProofLeadsToRoot(vrun.source)
    /\ vrun.pc = "proof" => SealedHashMatches(vrun.source)
    /\ (vrun.pc = "done" /\ vrun.error = "Chunk hash mismatch") =>
          (~vrun.verified /\ ~vrun.proofChecked /\ vrun.lookups = 0)
    /\ (vrun.pc = "done" /\ vrun.error = "Invalid Merkle proof") =>
          (~vrun.verified /\ vrun.lookups = 0)
    /\ vrun.lookups <= 1

C4_Witness ==
    /\ vrun.pc = "done"
    /\ vrun.error = "Chunk hash mismatch"
    /\ ProofLeadsToRoot(vrun.source)
    /\ RootRecord(vrun.source.merkleRoot).timestamp # 0

\* C5: with a chunk of an ingested and anchored document tampered,
\* verifySource fails at the hash layer on a tampered chunk and returns
\* verified = true on every other chunk of the document (the lookup
\* answering).
C5_TamperIsolation ==
    (/\ vrun.pc = "done"
     /\ ~vrun.source.forged
     /\ vrun.error # "thrown"
     /\ \E c \in TamperedChunks : c[1] = vrun.source.chunkId[1])
        => IF vrun.source.chunkId \in TamperedChunks
           THEN ~vrun.verified /\ vrun.error = "Chunk hash mismatch"
           ELSE vrun.verified

\* C6: a tamper request on a chunk whose metadata holds originalContent is
\* answered with the already-tampered error and changes no row.
C6_DoubleTamperRejected ==
    [][\A c \in DOMAIN chunks :
          (/\ HandlerStep
           /\ response'.chunkId = c
           /\ response'.action = "tamper"
           /\ IsPresent(chunks[c].metadata.originalContent))
              => /\ response'.status = 400
                 /\ response'.error = "Chunk already tampered"
                 /\ chunks' = chunks]_vars

C6_Witness ==
    /\ response.error = "Chunk already tampered"
    /\ response.chunkId \in TamperedChunks

\* C7: a tamper acts on the row as ingested, and the restore that follows
\* gives back that row: the content before the tamper, no originalContent
\* and no tamperedAt, so that the source retrieved for the chunk is the one
\* retrieved before the tamper.
C7_RestoreReturnsOriginal ==
    [][\A c \in DOMAIN chunks :
          /\ (/\ HandlerStep
              /\ response'.chunkId = c
              /\ response'.action = "tamper"
              /\ response'.status = 200)
                 => chunks[c] = ChunkRow(c[1], c[2])
          /\ (/\ HandlerStep
              /\ response'.chunkId = c
              /\ response'.action = "restore"
              /\ response'.status = 200)
                 => /\ chunks'[c] = ChunkRow(c[1], c[2])
                    /\ chunks'[c].content # chunks[c].content
                    /\ documents' = documents]_vars

C7_Witness ==
    /\ response.action = "restore"
    /\ response.status = 200
    /\ response.chunkId \notin TamperedChunks

\* C8: a restore request on a chunk without originalContent is answered with
\* the not-tampered error, a request with an unknown action or an unknown
\* chunk id with an error, and none of them changes a row.
C8_RejectedWithoutMutation ==
    [][HandlerStep =>
          /\ (/\ response'.action = "restore"
              /\ response'.chunkId \in DOMAIN chunks
              /\ ~IsPresent(chunks[response'.chunkId].metadata.originalContent))
                 => /\ response'.status = 400
                    /\ response'.error = "Chunk is not tampered"
                    /\ chunks' = chunks
                    /\ documents' = documents
          /\ (\/ response'.action \notin {"tamper", "restore"}
              \/ response'.chunkId \notin DOMAIN chunks)
                 => /\ response'.status \in {400, 404}
                    /\ chunks' = chunks
                    /\ documents' = documents]_vars

C8_Witness ==
    /\ response.error = "Chunk is not tampered"
    /\ response.chunkId \in DOMAIN chunks
    /\ response.chunkId \notin TamperedChunks

\* C9: no step changes the sha256Hash or the merkleProof of a stored chunk
\* or a stored document row; of a chunk only the content and the two tamper
\* fields of the metadata change.
C9_SealUntouched ==
    [][/\ \A c \in DOMAIN chunks :
             /\ c \in DOMAIN chunks'
             /\ chunks'[c].sha256Hash = chunks[c].sha256Hash
             /\ chunks'[c].merkleProof = chunks[c].merkleProof
             /\ chunks'[c] =
                   [chunks[c] EXCEPT
                       !.content = chunks'[c].content,
                       !.metadata.originalContent = chunks'[c].metadata.originalContent,
                       !.metadata.tamperedAt = chunks'[c].metadata.tamperedAt]
       /\ \A d \in DOMAIN documents :
             d \in DOMAIN documents' /\ documents'[d] = documents[d]]_vars

C9_Witness ==
    /\ response.action = "tamper"
    /\ response.status = 200
    /\ response.chunkId \in TamperedChunks
    /\ chunks[response.chunkId].sha256Hash
          # generateChunkHash(chunks[response.chunkId].content)

\* C10: a second anchorMerkleRoot call for a root, begun after a first call
\* for it returned, does not fail with the registry's duplicate error and
\* returns the same transaction hash, whatever number of blocks was mined in
\* between; the registry holds one record for the root.
C10_AnchorIdempotent ==
    \A p, q \in Runs :
        (p \in runs[q].prior /\ runs[p].root = runs[q].root) =>
            /\ runs[q].error # "Root already exists"
            /\ AnchorReturned(q) => runs[q].blockchainTxId = runs[p].blockchainTxId
            /\ Cardinality({i \in 1..Len(rootHistory) : rootHistory[i] = runs[q].root}) = 1


\* positions i and j are the two members of one adjacent pair of the leaf level
SamePair(i, j) == (i + 1) \div 2 = (j + 1) \div 2

\* C11 (as stated): exchanging two different leaves of a sequence changes
\* the root of buildMerkleTree, also when the two are the members of one
\* adjacent pair.
C11_SwapChangesRoot ==
    mPc = "swapped" => mResult = TRUE

\* C11 (amended): over distinct leaves, exchanging two leaves changes the
\* root of buildMerkleTree exactly when the two are not the members of one
\* adjacent pair; the exchange of the two members of a pair leaves the root
\* as it was, whatever the leaves.
C11_SwapChangesRootAcrossPairs ==
    mPc = "swapped" =>
        /\ SamePair(mCall.index, mCall.other) => mResult = FALSE
        /\ (Distinct(mLeaves) /\ ~SamePair(mCall.index, mCall.other)) => mResult = TRUE

C11_Witness ==
    /\ mPc = "swapped"
    /\ Distinct(mLeaves)
    /\ Len(mLeaves) >= 5
    /\ ~SamePair(mCall.index, mCall.other)
    /\ mResult = TRUE


\* C12: buildMerkleTree called with zero leaves fails with an error and
\* returns no root.
C12_EmptyInputFails ==
    (mLeaves = <<>> /\ mPc # "input") => mPc = "failed"


\* C13 (as stated): over the single leaf d, buildMerkleTree returns as root
\* the digest of d paired with itself, and the proof stored for d verifies
\* against that root.
C13_SingleLeafRootHashed ==
    (mPc = "verified" /\ mCall.changed = "none" /\ Len(mLeaves) = 1) =>
        /\ mData.root = hashFn(SortedConcat(mLeaves[1], mLeaves[1]))
        /\ mResult = TRUE

\* C13 (amended): over the single leaf d, buildMerkleTree returns d itself
\* as root and the empty proof for d, and that proof verifies against the
\* root.
C13_SingleLeafRootIsLeaf ==
    (mPc = "verified" /\ mCall.changed = "none" /\ Len(mLeaves) = 1) =>
        /\ mData.root = mLeaves[1]
        /\ mData.root # hashFn(SortedConcat(mLeaves[1], mLeaves[1]))
        /\ getProofForChunk(mData, mLeaves[1]) = <<>>
        /\ mCall.proof = <<>>
        /\ mResult = TRUE

C13_Witness ==
    /\ mPc = "verified"
    /\ mCall.changed = "none"
    /\ Len(mLeaves) = 1
    /\ mCall.root = mLeaves[1]
    /\ mResult = TRUE


\* the chunk text that was hashed at the ingestion of the chunk
SealedContent(chunkId) == runs[chunkId[1]].chunkTexts[chunkId[2]]

\* C14 (as stated): a source verifySource returns verified = true for has
\* content identical, character by character, to the chunk text hashed at
\* ingestion.
C14_VerifiedContentIdentical ==
    (vrun.pc = "done" /\ vrun.verified) =>
        vrun.source.content = SealedContent(vrun.source.chunkId)

\* C14 (amended): a source verifySource returns verified = true for has
\* content equal to the chunk text hashed at ingestion once leading and
\* trailing white space is trimmed from both.
C14_VerifiedContentIdenticalTrimmed ==
    (vrun.pc = "done" /\ vrun.verified) =>
        Trim(vrun.source.content) = Trim(SealedContent(vrun.source.chunkId))

C14_Witness ==
    /\ vrun.pc = "done"
    /\ vrun.verified
    /\ vrun.source.content # SealedContent(vrun.source.chunkId)
    /\ Trim(vrun.source.content) = Trim(SealedContent(vrun.source.chunkId))


\* C15: once anchorMerkleRoot has returned a transaction hash for a root,
\* through the return of the found event or through the write and its
\* receipt, verifyRootOnChain of the root returns exists = true, from that
\* state on.
C15_ReturnedRootExists ==
    \A r \in Runs :
        AnchorReturned(r) => verifyRootOnChain(rootToBytes32(runs[r].root)).exists

C15_Witness ==
    \E p, q \in Runs :
        /\ AnchorReturned(p) /\ runs[p].tx = 0
        /\ AnchorReturned(q) /\ runs[q].tx # 0
        /\ verifyRootOnChain(rootToBytes32(runs[p].root)).exists
        /\ verifyRootOnChain(rootToBytes32(runs[q].root)).exists


\* C16: an anchorRoot transaction on a root that has a record reverts and
\* changes nothing in the registry, one on a root without a record writes
\* the record from its own arguments, and no step changes or removes the
\* record of a root.
C16_AnchoredRootImmutable ==
    [][/\ \A r \in DOMAIN roots : r \in DOMAIN roots' /\ roots'[r] = roots[r]
       /\ \A tx \in 1..Len(txs) :
             (txs[tx].status = "pending" /\ txs'[tx].status # "pending") =>
                IF RootRecord(txs[tx].merkleRoot).timestamp # 0
                THEN /\ txs'[tx].status = "reverted"
                     /\ roots' = roots
                     /\ rootHistory' = rootHistory
                     /\ eventLog' = eventLog
                ELSE /\ txs'[tx].status = "success"
                     /\ roots'[txs[tx].merkleRoot] =
                           [timestamp    |-> BlockTimestamp(blockNumber'),
                            documentId   |-> txs[tx].documentId,
                            registeredBy |-> txs[tx].sender]]_vars

C16_Witness ==
    \E tx \in 1..Len(txs) :
        /\ txs[tx].status = "reverted"
        /\ RootRecord(txs[tx].merkleRoot).timestamp # 0
        /\ RootRecord(txs[tx].merkleRoot).documentId # txs[tx].documentId


\* the roots of the files that can be ingested, the digests of their
\* chunks, and a digest of no file
ProbeRoots ==
    {buildMerkleTree(generateChunkHashes(f)).root : f \in Files}
        \cup {generateChunkHash(ChunkText(k)) : k \in 1..MaxChunks}
        \cup {hashFn(<<>>)}

\* the transactions that anchored the root
AnchoredBy(merkleRoot) ==
    {tx \in 1..Len(txs) : txs[tx].merkleRoot = merkleRoot /\ txs[tx].status = "success"}

\* C17: verifyRoot of a root that a transaction anchored returns exists =
\* true with the non-zero timestamp and the documentId of that
\* transaction; of any other root it returns exists = false, timestamp 0
\* and the empty documentId; the lookup a verifySource call made returned
\* one of the two.
C17_LookupTotal ==
    /\ \A r \in ProbeRoots :
          IF AnchoredBy(r) # {}
          THEN /\ Cardinality(AnchoredBy(r)) = 1
               /\ verifyRoot(r).exists = TRUE
               /\ verifyRoot(r).timestamp # 0
               /\ verifyRoot(r).timestamp = roots[r].timestamp
               /\ \A tx \in AnchoredBy(r) : verifyRoot(r).documentId = txs[tx].documentId
          ELSE verifyRoot(r) = [exists |-> FALSE, timestamp |-> 0, documentId |-> ""]
    /\ IsPresent(vrun.onChain) =>
          IF vrun.onChain[1].exists
          THEN /\ AnchoredBy(vrun.source.merkleRoot) # {}
               /\ vrun.onChain[1] = verifyRoot(vrun.source.merkleRoot)
          ELSE vrun.onChain[1] = [exists |-> FALSE, timestamp |-> 0, documentId |-> ""]

C17_Witness ==
    /\ IsPresent(vrun.onChain)
    /\ ~vrun.onChain[1].exists
    /\ AnchoredBy(vrun.source.merkleRoot) = {}
    /\ \E r \in ProbeRoots : AnchoredBy(r) # {}


\* the anchorRoot transactions that succeeded
SuccessfulAnchors == {tx \in 1..Len(txs) : txs[tx].status = "success"}

\* C18: getRootCount is the number of anchorRoot transactions that
\* succeeded, 0 after deployment; rootHistory holds the anchored roots in
\* the order of their anchoring, each of them once.
C18_RootCountAndHistory ==
    /\ getRootCount = Cardinality(SuccessfulAnchors)
    /\ Distinct(rootHistory)
    /\ {rootHistory[i] : i \in 1..Len(rootHistory)} = DOMAIN roots
    /\ Len(eventLog) = Len(rootHistory)
    /\ \A i \in 1..Len(rootHistory) :
          /\ eventLog[i].merkleRoot = rootHistory[i]
          /\ eventLog[i].transactionHash \in SuccessfulAnchors
          /\ roots[rootHistory[i]].timestamp = eventLog[i].timestamp
    /\ \A i, j \in 1..Len(rootHistory) :
          i < j => roots[rootHistory[i]].timestamp < roots[rootHistory[j]].timestamp
    /\ (txs = <<>>) => getRootCount = 0

C18_Witness ==
    /\ getRootCount = 2
    /\ rootHistory[1] # rootHistory[2]
    /\ Cardinality(SuccessfulAnchors) = 2


\* the calls of the batch
Calls == DOMAIN vall.calls

LookupsOf(merkleRoot) ==
    {i \in Calls : vall.calls[i].source.merkleRoot = merkleRoot
                      /\ vall.calls[i].lookups > 0}

\* C20: the calls of one batch send at most one lookup for a root.
C20_OneLookupPerRoot ==
    \A i \in Calls :
        Cardinality(LookupsOf(vall.calls[i].source.merkleRoot)) <= 1


\* C21: a verifySource call ends only by returning a verdict: after a hash
\* mismatch, a proof mismatch, a root the lookup does not report and an
\* exception of any of the three steps the verdict has verified = false
\* and an error detail.
C21_FailuresAreVerdicts ==
    /\ vrun.pc \in {"idle", "hashing", "proof", "anchor", "done"}
    /\ vrun.pc = "done" =>
          /\ vrun.verified \in BOOLEAN
          /\ vrun.verified <=> vrun.error = ""
          /\ ~SealedHashMatches(vrun.source) => ~vrun.verified
          /\ ~ProofLeadsToRoot(vrun.source) => ~vrun.verified
          /\ (IsPresent(vrun.onChain) /\ ~vrun.onChain[1].exists) =>
                (~vrun.verified /\ vrun.error = "Merkle root not found on blockchain")
          /\ vrun.error \in {"", "Chunk hash mismatch", "Invalid Merkle proof",
                              "Merkle root not found on blockchain", "thrown"}

C21_Witness ==
    /\ vrun.pc = "done"
    /\ vrun.error = "thrown"
    /\ vrun.lookups = 0
    /\ ~vrun.verified


\* C22: verifyMerkleProof returns false whenever the leaf digest, a proof
\* element or the root is not a well-formed digest.
C22_MalformedRejected ==
    mPc = "malformed" => mResult = FALSE


\* the texts the store and the running verifySource call hold
TextsHeld ==
    {chunks[c].content : c \in DOMAIN chunks}
        \cup {chunks[c].metadata.originalContent[1] :
                 c \in {d \in DOMAIN chunks : IsPresent(chunks[d].metadata.originalContent)}}
        \cup (IF vrun.pc = "idle" THEN {} ELSE {vrun.source.content})

CeilLog2(n) == CHOOSE k \in 0..n : 2^k >= n /\ \A j \in 0..(k - 1) : 2^j < n

\* C24: over n distinct leaves every stored proof lists one sibling per
\* level, ceil(log2 n) in all, and the proof of a last leaf without a
\* partner starts with that leaf itself, its duplicate.
C24_OneSiblingPerLevel ==
    (mPc = "built" /\ Distinct(mLeaves)) =>
        \A i \in 1..Len(mLeaves) :
            LET proof == getProofForChunk(mData, mLeaves[i])
            IN  /\ Len(proof) = CeilLog2(Len(mLeaves))
                /\ (i = Len(mLeaves) /\ i % 2 = 1 /\ i > 1) => proof[1] = mLeaves[i]


\* the nodes the builder computed above leaf i (1-based), level by level
RECURSIVE BuilderPath(_, _, _)
BuilderPath(layers, l, index) ==
    IF l > Len(layers) THEN {}
    ELSE {layers[l][index + 1]} \cup BuilderPath(layers, l + 1, index \div 2)

\* the digests the verifier passes through when it folds a proof
VerifierPath(leaf, proof) ==
    {FoldProof(leaf, SubSeq(proof, 1, k)) : k \in 0..Len(proof)}

\* C25: builder and verifier combine two digests by the same rule, which
\* does not depend on the order of the two; folding x with sibling y gives
\* the parent the builder computed for the pair; and the pairing of an
\* unpaired node with itself is made on both sides, so the verifier passes
\* through every node the builder computed above the leaf.
C25_SamePairRule ==
    (mPc = "built" /\ Distinct(mLeaves) /\ mLeaves # <<>>) =>
        LET layers == CreateLayers(mLeaves)
        IN  /\ \A x \in DigestsAround(mLeaves) : \A y \in DigestsAround(mLeaves) :
                  /\ hashFn(SortedConcat(x, y)) = hashFn(SortedConcat(y, x))
                  /\ FoldProof(x, <<y>>) = hashFn(SortedConcat(x, y))
            /\ \A l \in 1..(Len(layers) - 1) : \A k \in 1..(Len(layers[l]) \div 2) :
                  /\ FoldProof(layers[l][2 * k - 1], <<layers[l][2 * k]>>) = layers[l + 1][k]
                  /\ FoldProof(layers[l][2 * k], <<layers[l][2 * k - 1]>>) = layers[l + 1][k]
            /\ \A i \in 1..Len(mLeaves) :
                  BuilderPath(layers, 1, i - 1) \subseteq
                      VerifierPath(mLeaves[i], getProofForChunk(mData, mLeaves[i]))



\* the lookup of request r's anchorMerkleRoot call reported exists = true:
\* only then is the block number read
LookupSaidExists(r) == runs[r].currentBlock # 0

\* C26: anchorMerkleRoot calls writeContract only when its lookup of the
\* root reported exists = false; no call whose lookup reported the root as
\* anchored goes on to the write.
C26_WriteOnlyAfterNegativeLookup ==
    [][\A r \in Runs :
          (runs[r].pc = "anchor_write" /\ runs'[r].pc # "anchor_write"
              /\ runs'[r].error # "thrown")
                => ~LookupSaidExists(r)]_vars


\* C27: whatever the interleaving of tamper and restore requests on a
\* chunk, originalContent is in the metadata of the chunk exactly when its
\* content differs from the sealed content, and the listing reports
\* isTampered = true exactly for the chunks it read in that state.
C27_MarkerIffTampered ==
    /\ \A c \in DOMAIN chunks :
          /\ IsPresent(chunks[c].metadata.originalContent) <=>
                 chunks[c].content # SealedContent(c)
          /\ IsPresent(chunks[c].metadata.originalContent) =>
                 chunks[c].metadata.originalContent[1] = SealedContent(c)
    /\ \A h \in Handlers :
          (handlers[h].pc = "responded" /\ handlers[h].action = "list") =>
              \A c \in DOMAIN handlers[h].listing :
                  LET row == handlers[h].listing[c]
                  IN  /\ row.isTampered <=> row.contentPreview # SealedContent(c)
                      /\ row.isTampered <=> IsPresent(row.tamperedAt)

C27_Witness ==
    \E g, h \in Handlers :
       /\ g # h
       /\ handlers[g].pc = "responded" /\ handlers[g].action = "tamper"
       /\ handlers[h].pc = "responded" /\ handlers[h].action = "tamper"
       /\ handlers[g].status = 200 /\ handlers[h].status = 200
       /\ handlers[g].chunkId = handlers[h].chunkId
       /\ chunks[handlers[g].chunkId].content =
              SealedContent(handlers[g].chunkId) \o TAMPER_MARKER
       /\ IsPresent(chunks[handlers[g].chunkId].metadata.originalContent)



\* C28: in every state of the ingestion pipeline, failed requests
\* included, the ledger lookup of the merkleRoot of every stored document
\* row reports exists = true, and the row of a request is there only once
\* its anchoring call has returned.
C28_StoredRootsAnchored ==
    /\ \A d \in DOMAIN documents :
          verifyRootOnChain(rootToBytes32(documents[d].merkleRoot)).exists
    /\ \A r \in Runs :
          DocumentId(r) \in DOMAIN documents =>
              /\ AnchorReturned(r)
              /\ documents[DocumentId(r)].merkleRoot = runs[r].root
              /\ documents[DocumentId(r)].blockchainTxId = runs[r].blockchainTxId

C28_Witness ==
    \E p, q \in Runs :
       /\ runs[p].pc = "error" /\ DocumentId(p) \in DOMAIN documents
       /\ runs[q].pc = "error" /\ DocumentId(q) \notin DOMAIN documents
       /\ runs[q].tx # 0


\* C29: the documentId of a verified verdict for a stored chunk is the id
\* of the document row the chunk belongs to, also when two documents with
\* the same chunks, hence the same root, are stored.
C29_VerdictNamesOwnDocument ==
    (vrun.pc = "done" /\ vrun.verified /\ ~vrun.source.forged) =>
        /\ vrun.source.chunkId \in DOMAIN chunks
        /\ vrun.documentId = Some(chunks[vrun.source.chunkId].documentId)


\* the anchorMerkleRoot call of request r went on to the write from a
\* lookup that reported the root as not anchored
WroteAfterNegativeLookup(r) ==
    /\ ~LookupSaidExists(r)
    /\ runs[r].tx # 0 \/ runs[r].error = "Root already exists"

\* C30: of two anchorMerkleRoot calls for one root whose lookups both
\* reported it as not anchored, neither fails with "Root already exists"
\* and each returns the hash of the transaction that anchored the root.
C30_ConcurrentAnchorsAgree ==
    \A p, q \in Runs :
        (/\ p # q
         /\ runs[p].root = runs[q].root
         /\ WroteAfterNegativeLookup(p)
         /\ WroteAfterNegativeLookup(q))
            => /\ runs[q].error # "Root already exists"
               /\ AnchorReturned(q) =>
                     /\ txs[runs[q].blockchainTxId].status = "success"
                     /\ AnchorReturned(p) =>
                           runs[p].blockchainTxId = runs[q].blockchainTxId

====
